---- MODULE Spec2Model ----
(***************************************************************************)
(* Model of the sentiment-analysis service: the HTTP handlers of           *)
(* app-engine/main.go, the background tasks they start, and the pure       *)
(* helpers of the sentiment package.                                       *)
(*                                                                         *)
(* Go strings that the code takes apart (file names) are sequences of      *)
(* one-character strings; Go strings that are only compared (post IDs,     *)
(* bodies, labels) are TLA+ strings.  A float32 score s is the integer     *)
(* s * ScoreScale.                                                         *)
(***************************************************************************)
EXTENDS Integers, Sequences, FiniteSets, TLC

VARIABLES
    responses,  \* HTTP responses written so far, one per request, in arrival order
    tasks,      \* the background task of each request (pc = "idle": none started)
    storage,    \* the bucket: object name -> content ("absent" when there is none)
    store0,     \* the bucket as it was before the first request (never changes)
    events,     \* the messages published on the pubsub topic, in order
    fpc,        \* pure-function harness: "off", "in" (input drawn) or "out" (applied)
    fin,        \* pure-function harness: the input
    fout        \* pure-function harness: the output

sysvars == <<responses, tasks, storage, store0, events>>
fnvars == <<fpc, fin, fout>>
vars == <<responses, tasks, storage, store0, events, fpc, fin, fout>>

(***************************************************************************)
(* Bounds                                                                  *)
(***************************************************************************)
MaxRequests == 2
MaxPosts == 2
MaxPieces == 3
MaxEntities == 3
ScoreScale == 100

(***************************************************************************)
(* Go's strings package on sequences of characters                         *)
(***************************************************************************)
Analyzed == <<"a", "n", "a", "l", "y", "z", "e", "d">>
UnderscoreAnalyzed == <<"_">> \o Analyzed

\* strings.Index, 1-based; 0 when sub does not occur
IndexOf(s, sub) ==
    LET hits == {i \in 1..(Len(s) - Len(sub) + 1) : SubSeq(s, i, i + Len(sub) - 1) = sub}
    IN IF hits = {} THEN 0 ELSE CHOOSE i \in hits : \A k \in hits : i <= k

Contains(s, sub) == IndexOf(s, sub) > 0

\* strings.Replace(s, old, new, 1): the first occurrence only; an empty old
\* matches at the beginning of the string
ReplaceFirst(s, old, new) ==
    LET i == IndexOf(s, old)
    IN IF i = 0 THEN s
       ELSE SubSeq(s, 1, i - 1) \o new \o SubSeq(s, i + Len(old), Len(s))

LowerChar(c) ==
    CASE c = "A" -> "a" [] c = "N" -> "n" [] c = "L" -> "l" [] c = "Y" -> "y"
      [] c = "Z" -> "z" [] c = "E" -> "e" [] c = "D" -> "d" [] c = "P" -> "p"
      [] c = "J" -> "j" [] OTHER -> c

ToLower(s) == [i \in 1..Len(s) |-> LowerChar(s[i])]

\* filepath.Ext: the suffix from the final dot of the final path element
RECURSIVE ExtFrom(_, _)
ExtFrom(path, i) ==
    IF i < 1 THEN <<>>
    ELSE IF path[i] = "/" THEN <<>>
    ELSE IF path[i] = "." THEN SubSeq(path, i, Len(path))
    ELSE ExtFrom(path, i - 1)

Ext(path) == ExtFrom(path, Len(path))

(***************************************************************************)
(* main.go: file name helpers                                              *)
(***************************************************************************)
appendToFilename(filename, addendum) ==
    LET extension == Ext(filename)
    IN ReplaceFirst(filename, extension, <<"_">>) \o addendum \o extension

isAnalysisFilename(filename) == Contains(ToLower(filename), Analyzed)

\* strings.Replace(filename, "_analyzed", "", 1) of the start*Analysis functions
originalFilename(filename) == ReplaceFirst(filename, UnderscoreAnalyzed, <<>>)

(***************************************************************************)
(* sentiment package: parseSentiment                                       *)
(* A score is an integer k standing for k / ScoreScale, or NaN.            *)
(***************************************************************************)
\* NaN has no integer of its own: it is the one value outside every range
\* of scores the model draws
NaN == 0 - (ScoreScale * ScoreScale)
IsNaN(score) == score = NaN

CondZero(score) == ~IsNaN(score) /\ score = 0
CondNeutral(score) == ~IsNaN(score) /\ score * 10 = ScoreScale
CondPositive(score) == ~IsNaN(score) /\ score * 10 > ScoreScale
CondMixed(score) == ~IsNaN(score) /\ score * 10 < ScoreScale /\ score > 0
CondNegative(score) == ~IsNaN(score) /\ score < 0

\* the branch thresholds the specification describes: "> 0.0" taken before
\* the "< 0.1 and > 0.0" branch
parseSentimentBranch_Shadowed(score) ==
    IF CondZero(score) THEN 1
    ELSE IF CondNeutral(score) THEN 2
    ELSE IF ~IsNaN(score) /\ score > 0 THEN 3
    ELSE IF CondMixed(score) THEN 4
    ELSE IF CondNegative(score) THEN 5
    ELSE 6

\* positive taken from 0.1 on, before the neutral test
parseSentimentBranch_GreaterEqual(score) ==
    IF CondZero(score) THEN 1
    ELSE IF ~IsNaN(score) /\ score * 10 >= ScoreScale THEN 3
    ELSE IF CondNeutral(score) THEN 2
    ELSE IF CondMixed(score) THEN 4
    ELSE IF CondNegative(score) THEN 5
    ELSE 6

\* the if / else-if chain, by the number of the branch that returns
parseSentimentBranch(score) ==
    IF CondZero(score) THEN 1
    ELSE IF CondNeutral(score) THEN 2
    ELSE IF CondPositive(score) THEN 3
    ELSE IF CondMixed(score) THEN 4
    ELSE IF CondNegative(score) THEN 5
    ELSE 6

BranchLabel(b) ==
    CASE b = 1 -> "mixed" [] b = 2 -> "neutral" [] b = 3 -> "positive"
      [] b = 4 -> "mixed" [] b = 5 -> "negative" [] OTHER -> "unknown"

parseSentiment(score) == BranchLabel(parseSentimentBranch(score))

(***************************************************************************)
(* sentiment package: records and the per-post helpers                     *)
(***************************************************************************)
ZeroSentiment == [Score |-> 0, ParsedSentiment |-> ""]
ZeroAnalysis == [Sentiment |-> ZeroSentiment, Entity |-> <<>>]

\* a prune that keeps every post
pruneEmptyPosts_KeepAll(posts) == posts

RECURSIVE pruneEmptyPosts(_)
pruneEmptyPosts(posts) ==
    IF posts = <<>> THEN <<>>
    ELSE IF Head(posts).Body = "" THEN pruneEmptyPosts(Tail(posts))
    ELSE <<Head(posts)>> \o pruneEmptyPosts(Tail(posts))

\* the entityTracker map after the first n entities: a name seen again is
\* reset to 1 instead of incremented
RECURSIVE entityTracker_NoIncrement(_, _)
entityTracker_NoIncrement(entities, n) ==
    IF n = 0 THEN <<>>
    ELSE LET prev == entityTracker_NoIncrement(entities, n - 1)
             name == entities[n].Name
         IN IF name \notin DOMAIN prev THEN prev @@ (name :> 1)
            ELSE [prev EXCEPT ![name] = 1]

\* the entityTracker map after the first n entities
RECURSIVE entityTracker(_, _)
entityTracker(entities, n) ==
    IF n = 0 THEN <<>>
    ELSE LET prev == entityTracker(entities, n - 1)
             name == entities[n].Name
         IN IF name \notin DOMAIN prev THEN prev @@ (name :> 1)
            ELSE [prev EXCEPT ![name] = @ + 1]

\* getEntityCount: one EntityWrapper per key of the map.  Go ranges over a
\* map in no fixed order, so the result is any ordering of the entries.
getEntityCount(entities) ==
    LET tracker == entityTracker(entities, Len(entities))
        entries == {[Keyword |-> k, Count |-> tracker[k]] : k \in DOMAIN tracker}
        n == Cardinality(entries)
    IN {w \in [1..n -> entries] : \A a, b \in 1..n : w[a] = w[b] => a = b}

(***************************************************************************)
(* The external language API: what it answers for a post body.  Whether a  *)
(* call fails is chosen by the action that makes it.                       *)
(***************************************************************************)
Entity(name, type) == [Name |-> name, Type |-> type]

ApiEntities(body) ==
    IF body = "x" THEN <<Entity("go", "OTHER"), Entity("go", "ORGANIZATION")>>
    ELSE <<Entity("tla", "OTHER")>>

ApiSentimentScore(body) == IF body = "x" THEN ScoreScale \div 2 ELSE 0 - ScoreScale \div 2

(***************************************************************************)
(* main.go: wrapper records                                                *)
(***************************************************************************)
toWrapper(posts) ==
    [i \in 1..Len(posts) |->
        [ID |-> posts[i].ID,
         Entity |-> posts[i].Analysis.Entity,
         Sentiment |-> posts[i].Analysis.Sentiment]]

Merged(wrapperPosts) == [panic |-> FALSE, wrapperPosts |-> wrapperPosts]
Panic == [panic |-> TRUE, wrapperPosts |-> <<>>]

\* addSentimentToWrapper's two loops from (i, j) on, 1-based: on a match the
\* code writes wrapperPosts[i], which panics when i is past the slice's end
RECURSIVE addSentimentLoop(_, _, _, _)
addSentimentLoop(posts, wrapperPosts, i, j) ==
    IF i > Len(posts) THEN Merged(wrapperPosts)
    ELSE IF j > Len(wrapperPosts) THEN addSentimentLoop(posts, wrapperPosts, i + 1, 1)
    ELSE IF posts[i].ID = wrapperPosts[j].ID
         THEN IF i > Len(wrapperPosts) THEN Panic
              ELSE addSentimentLoop(posts,
                       [wrapperPosts EXCEPT ![i].Sentiment = posts[i].Analysis.Sentiment], i, j + 1)
         ELSE addSentimentLoop(posts, wrapperPosts, i, j + 1)

addSentimentToWrapper(posts, wrapperPosts) == addSentimentLoop(posts, wrapperPosts, 1, 1)

RECURSIVE addEntityLoop(_, _, _, _)
addEntityLoop(posts, wrapperPosts, i, j) ==
    IF i > Len(posts) THEN Merged(wrapperPosts)
    ELSE IF j > Len(wrapperPosts) THEN addEntityLoop(posts, wrapperPosts, i + 1, 1)
    ELSE IF posts[i].ID = wrapperPosts[j].ID
         THEN IF i > Len(wrapperPosts) THEN Panic
              ELSE addEntityLoop(posts,
                       [wrapperPosts EXCEPT ![i].Entity = posts[i].Analysis.Entity], i, j + 1)
         ELSE addEntityLoop(posts, wrapperPosts, i, j + 1)

addEntityToWrapper(posts, wrapperPosts) == addEntityLoop(posts, wrapperPosts, 1, 1)

(***************************************************************************)
(* The bucket.  An object holds the JSON of a list of posts or of a list   *)
(* of wrapper records; json.Decode keeps the fields the target struct      *)
(* names and drops the others.                                             *)
(***************************************************************************)
Absent == [kind |-> "absent"]
PostsFile(posts) == [kind |-> "posts", posts |-> posts]
WrappedFile(recs) == [kind |-> "wrapped", recs |-> recs]

Lookup(store, name) == IF name \in DOMAIN store THEN store[name] ELSE Absent

\* json.Decode into []sentiment.RedditPost
DecodePosts(content) ==
    IF content.kind = "posts" THEN content.posts
    ELSE [i \in 1..Len(content.recs) |->
             [ID |-> content.recs[i].ID, Body |-> "", Analysis |-> ZeroAnalysis]]

\* json.Decode into []AnalysisWrapper
DecodeWrapped(content) ==
    IF content.kind = "wrapped" THEN content.recs
    ELSE [i \in 1..Len(content.posts) |->
             [ID |-> content.posts[i].ID, Entity |-> <<>>, Sentiment |-> ZeroSentiment]]

(***************************************************************************)
(* The requests and files of the model                                     *)
(***************************************************************************)
RawName == <<"p", ".", "j">>
AnalyzedName == <<"p">> \o UnderscoreAnalyzed \o <<".", "j">>
OddName == Analyzed \o <<".", "j">>
FileNames == {RawName, AnalyzedName, OddName}
RequestNames == FileNames \cup {<<>>}
Methods == {"GET", "POST"}
Stages == {"entity", "sentiment"}
Bodies == {"", "x", "y"}
Requests == 1..MaxRequests

\* the scraped files: post i has ID "i" and no analysis yet
PostLists ==
    UNION {[1..n -> Bodies] : n \in 0..MaxPosts}

RawPosts(bodies) ==
    [i \in 1..Len(bodies) |-> [ID |-> ToString(i), Body |-> bodies[i], Analysis |-> ZeroAnalysis]]

IdleTask ==
    [pc |-> "idle", stage |-> "", filename |-> <<>>, outputFilename |-> <<>>,
     wrappedPosts |-> <<>>, posts |-> <<>>, analyzedPosts |-> <<>>, i |-> 0,
     failed |-> {}, logged |-> {},
     apiCalls |-> <<>>, saved |-> <<>>, stored |-> FALSE, notified |-> <<>>,
     reads |-> {}, writes |-> {}, during |-> {}]

Running(t) == tasks[t].pc \in {"fetchAnalyzed", "fetchPosts", "analyze", "save", "onAnalyzed"}

\* a panic in any goroutine ends the process
Crashed == \E t \in Requests : tasks[t].pc = "panic"

\* one iteration of the loop of AnalyzeEntitesInPosts, given the tally
EntityIteration(post, tally) == [post EXCEPT !.Analysis.Entity = tally]

\* one iteration of the loop of AnalyzePosts
SentimentIteration(post) ==
    LET score == ApiSentimentScore(post.Body)
    IN [post EXCEPT !.Analysis.Sentiment.Score = @ + score,
                    !.Analysis.Sentiment.ParsedSentiment = parseSentiment(score)]

\* the name fetchRedditPosts is called with
PostsNameOf(filename) ==
    IF isAnalysisFilename(filename) THEN originalFilename(filename) ELSE filename

\* AnalyzeEntitesInPosts / AnalyzePosts when every call succeeds (each body
\* of the model has entities of one name, so the tally has one ordering)
AnalyzeAll(stage, posts) ==
    LET pruned == pruneEmptyPosts(posts)
    IN [i \in 1..Len(pruned) |->
           IF stage = "entity"
           THEN EntityIteration(pruned[i],
                    CHOOSE tally \in getEntityCount(ApiEntities(pruned[i].Body)) : TRUE)
           ELSE SentimentIteration(pruned[i])]

\* startEntityAnalysis / startSentimentAnalysis run alone on the bucket
\* `store` with no step failing: the bucket it leaves
RunTask(store, stage, filename) ==
    LET wrappedFile == Lookup(store, filename)
        postsFile == Lookup(store, PostsNameOf(filename))
        posts == DecodePosts(postsFile)
        analyzedPosts == AnalyzeAll(stage, posts)
    IN IF isAnalysisFilename(filename)
       THEN IF \/ wrappedFile = Absent
               \/ Len(DecodeWrapped(wrappedFile)) = 0
               \/ postsFile = Absent
               \/ Len(posts) = 0
               \/ Len(analyzedPosts) = 0
            THEN store
            ELSE LET merged == IF stage = "entity"
                               THEN addEntityToWrapper(analyzedPosts, DecodeWrapped(wrappedFile))
                               ELSE addSentimentToWrapper(analyzedPosts, DecodeWrapped(wrappedFile))
                 IN IF merged.panic THEN store
                    ELSE (filename :> WrappedFile(merged.wrapperPosts)) @@ store
       ELSE IF postsFile = Absent \/ Len(posts) = 0
            THEN store
            ELSE (appendToFilename(filename, Analyzed) :> WrappedFile(toWrapper(analyzedPosts)))
                     @@ store

\* The bucket before the first request: the scraped file under RawName and
\* under OddName, and under AnalyzedName nothing or what an earlier entity
\* request for RawName left there.
ScrapedOnly(bodies) ==
    [n \in FileNames |-> IF n = AnalyzedName THEN Absent ELSE PostsFile(RawPosts(bodies))]

SysInit ==
    /\ responses = <<>>
    /\ tasks = [t \in Requests |-> IdleTask]
    /\ \E bodies \in PostLists :
          storage \in {ScrapedOnly(bodies), RunTask(ScrapedOnly(bodies), "entity", RawName)}
    /\ store0 = storage
    /\ events = <<>>

SysOff ==
    /\ responses = <<>>
    /\ tasks = [t \in Requests |-> IdleTask]
    /\ storage = [n \in FileNames |-> Absent]
    /\ store0 = storage
    /\ events = <<>>

FnOff == fpc = "off" /\ fin = <<>> /\ fout = <<>>

(***************************************************************************)
(* main.go: analyzeEntityHandler and analyzeSentimentHandler               *)
(***************************************************************************)
\* a handler that does not look at the method
HandlerAccepts_AnyMethod(method, filename) == filename # <<>>

HandlerAccepts(method, filename) == method = "GET" /\ filename # <<>>

HandlerResponse(method, filename) ==
    IF method # "GET" THEN [status |-> 400, text |-> "must be GET request", name |-> <<>>]
    ELSE IF filename = <<>>
         THEN [status |-> 400, text |-> "missing required input filename", name |-> <<>>]
         ELSE [status |-> 200, text |-> "analyzing", name |-> filename]

Handle(stage, method, filename) ==
    /\ ~Crashed
    /\ Len(responses) < MaxRequests
    /\ LET r == Len(responses) + 1
       IN /\ responses' = Append(responses,
                 [stage |-> stage, method |-> method, filename |-> filename,
                  response |-> HandlerResponse(method, filename)])
          /\ tasks' = IF HandlerAccepts(method, filename)
                      THEN [tasks EXCEPT ![r] =
                               [IdleTask EXCEPT
                                   !.pc = IF isAnalysisFilename(filename)
                                          THEN "fetchAnalyzed" ELSE "fetchPosts",
                                   !.stage = stage,
                                   !.filename = filename,
                                   !.outputFilename = appendToFilename(filename, Analyzed),
                                   !.during = {u \in Requests : Running(u)}]]
                      ELSE tasks
    /\ UNCHANGED <<storage, store0, events, fnvars>>

(***************************************************************************)
(* main.go: startEntityAnalysis and startSentimentAnalysis, one action per *)
(* call to an external service; the code between two calls belongs to the  *)
(* action of the call before it.                                           *)
(***************************************************************************)
Fail(task, step) ==
    [task EXCEPT !.pc = "failed", !.failed = @ \cup {step}, !.logged = @ \cup {step}]

\* the code after the analyze loop, up to the call of saveAnalyzedPosts
AfterAnalyze(task) ==
    IF isAnalysisFilename(task.filename)
    THEN IF Len(task.analyzedPosts) = 0
         THEN [task EXCEPT !.pc = "aborted"]
         ELSE LET merged == IF task.stage = "entity"
                            THEN addEntityToWrapper(task.analyzedPosts, task.wrappedPosts)
                            ELSE addSentimentToWrapper(task.analyzedPosts, task.wrappedPosts)
              IN IF merged.panic
                 THEN [task EXCEPT !.pc = "panic"]
                 ELSE [task EXCEPT !.pc = "save", !.wrappedPosts = merged.wrapperPosts]
    ELSE [task EXCEPT !.pc = "save", !.wrappedPosts = toWrapper(task.analyzedPosts)]

\* AnalyzeEntitesInPosts / AnalyzePosts up to their first external call
StartAnalyze(task) ==
    LET pruned == [task EXCEPT !.analyzedPosts = pruneEmptyPosts(task.posts), !.i = 1]
    IN IF Len(pruned.analyzedPosts) = 0 THEN AfterAnalyze(pruned)
       ELSE [pruned EXCEPT !.pc = "analyze"]

FetchOutcomes(content) ==
    IF content = Absent THEN {"read"} ELSE {"ok", "read", "decode"}

\* fetchRedditAnalyzedPosts(filename) and the count check after it
FetchAnalyzed(t, outcome) ==
    /\ ~Crashed
    /\ tasks[t].pc = "fetchAnalyzed"
    /\ LET task == tasks[t]
           content == Lookup(storage, task.filename)
       IN /\ outcome \in FetchOutcomes(content)
          /\ tasks' = [tasks EXCEPT ![t] =
                IF outcome # "ok" THEN Fail(task, outcome)
                ELSE LET got == [task EXCEPT !.wrappedPosts = DecodeWrapped(content),
                                             !.reads = @ \cup {task.filename}]
                     IN IF Len(got.wrappedPosts) = 0
                        THEN [got EXCEPT !.pc = "aborted"]
                        ELSE [got EXCEPT !.pc = "fetchPosts"]]
    /\ UNCHANGED <<responses, storage, store0, events, fnvars>>

PostsName(task) == PostsNameOf(task.filename)

\* fetchRedditPosts and the code up to the first call of the language API
FetchPosts(t, outcome) ==
    /\ ~Crashed
    /\ tasks[t].pc = "fetchPosts"
    /\ LET task == tasks[t]
           content == Lookup(storage, PostsName(task))
       IN /\ outcome \in FetchOutcomes(content)
          /\ tasks' = [tasks EXCEPT ![t] =
                IF outcome # "ok" THEN Fail(task, outcome)
                ELSE LET got == [task EXCEPT !.posts = DecodePosts(content),
                                             !.reads = @ \cup {PostsName(task)}]
                     IN IF Len(got.posts) = 0
                        THEN [got EXCEPT !.pc = "aborted"]
                        ELSE StartAnalyze(got)]
    /\ UNCHANGED <<responses, storage, store0, events, fnvars>>

\* one call of the language API for analyzedPosts[i], and the code that
\* follows it up to the next external call
AnalyzeCall(t, ok) ==
    /\ ~Crashed
    /\ tasks[t].pc = "analyze"
    /\ LET task == tasks[t]
           post == task.analyzedPosts[task.i]
           called == [task EXCEPT !.apiCalls = Append(@, [ID |-> post.ID, Body |-> post.Body])]
       IN \E tally \in getEntityCount(ApiEntities(post.Body)) :
             tasks' = [tasks EXCEPT ![t] =
                IF ~ok THEN Fail([called EXCEPT !.analyzedPosts = <<>>], "api")
                ELSE LET analyzed == IF task.stage = "entity"
                                     THEN EntityIteration(post, tally)
                                     ELSE SentimentIteration(post)
                         next == [called EXCEPT !.analyzedPosts[task.i] = analyzed,
                                                !.i = @ + 1]
                     IN IF next.i > Len(next.analyzedPosts) THEN AfterAnalyze(next)
                        ELSE next]
    /\ UNCHANGED <<responses, storage, store0, events, fnvars>>

\* the name an analyzed input keeps is not substituted
OutputName_NoOverride(task) == task.outputFilename

\* the output name after "if isAnalysisFilename(filename)"
OutputName(task) ==
    IF isAnalysisFilename(task.filename) THEN task.filename ELSE task.outputFilename

\* saveAnalyzedPosts and the check of its result.  Encode's error is
\* returned; the error of the deferred storageWriter.Close() is dropped, so
\* an upload that fails on Close looks like a success to the caller.
Save(t, outcome) ==
    /\ ~Crashed
    /\ tasks[t].pc = "save"
    /\ outcome \in {"ok", "encode", "write", "close"}
    /\ LET task == tasks[t]
           name == OutputName(task)
           called == [task EXCEPT !.saved = Append(@, name)]
       IN /\ tasks' = [tasks EXCEPT ![t] =
                CASE outcome = "ok" ->
                        [called EXCEPT !.pc = "onAnalyzed", !.stored = TRUE,
                                       !.writes = @ \cup {name}]
                  [] outcome = "close" ->
                        [called EXCEPT !.pc = "onAnalyzed", !.failed = @ \cup {"write"}]
                  [] OTHER -> Fail(called, outcome)]
          /\ storage' = IF outcome = "ok"
                        THEN (name :> WrappedFile(task.wrappedPosts)) @@ storage
                        ELSE storage
    /\ UNCHANGED <<responses, store0, events, fnvars>>

PubSubEvent(filename) == [eventType |-> "update-post-sentiment", payload |-> filename]

\* onAnalyzed(outputFilename): the entity handler's closure calls
\* triggerSentimentViaPubSub and drops its error; the sentiment handler's
\* closure only logs
OnAnalyzed(t, ok) ==
    /\ ~Crashed
    /\ tasks[t].pc = "onAnalyzed"
    /\ LET task == tasks[t]
           name == task.saved[Len(task.saved)]
           called == [task EXCEPT !.pc = "done", !.notified = Append(@, name)]
       IN IF task.stage = "entity"
          THEN IF name # <<>> /\ ok
               THEN /\ events' = Append(events, [event |-> PubSubEvent(name), task |-> t])
                    /\ tasks' = [tasks EXCEPT ![t] = called]
               ELSE /\ events' = events
                    /\ tasks' = [tasks EXCEPT ![t] =
                                    [called EXCEPT !.failed = @ \cup {"publish"}]]
          ELSE /\ ok
               /\ events' = events
               /\ tasks' = [tasks EXCEPT ![t] = called]
    /\ UNCHANGED <<responses, storage, store0, fnvars>>

Init == SysInit /\ FnOff

Next ==
    \/ \E stage \in Stages, method \in Methods, filename \in RequestNames :
          Handle(stage, method, filename)
    \/ \E t \in Requests, outcome \in {"ok", "read", "decode"} : FetchAnalyzed(t, outcome)
    \/ \E t \in Requests, outcome \in {"ok", "read", "decode"} : FetchPosts(t, outcome)
    \/ \E t \in Requests, ok \in BOOLEAN : AnalyzeCall(t, ok)
    \/ \E t \in Requests, outcome \in {"ok", "encode", "write", "close"} : Save(t, outcome)
    \/ \E t \in Requests, ok \in BOOLEAN : OnAnalyzed(t, ok)

Spec == Init /\ [][Next]_vars

(***************************************************************************)
(* Harness for the file name helpers: a name is drawn, the helpers are     *)
(* applied to it.                                                          *)
(***************************************************************************)
NamePieces == {<<"p">>, <<".", "j">>, UnderscoreAnalyzed, <<"A", "N", "A", "L", "Y", "Z", "E", "D">>}

RECURSIVE Concats(_)
Concats(n) ==
    IF n = 0 THEN {<<>>}
    ELSE LET shorter == Concats(n - 1)
         IN shorter \cup {a \o b : a \in shorter, b \in NamePieces}

NameInputs == Concats(MaxPieces)
Addenda == {Analyzed, <<"x">>}

NamesInit ==
    /\ SysOff
    /\ fpc = "in"
    /\ fin \in [filename : NameInputs, addendum : Addenda]
    /\ fout = <<>>

ApplyNames ==
    /\ fpc = "in"
    /\ fpc' = "out"
    /\ fout' = [appended |-> appendToFilename(fin.filename, fin.addendum),
                marked |-> isAnalysisFilename(fin.filename),
                original |-> originalFilename(fin.filename),
                outputMarked |-> isAnalysisFilename(appendToFilename(fin.filename, Analyzed)),
                outputOriginal |-> originalFilename(appendToFilename(fin.filename, Analyzed))]
    /\ UNCHANGED <<fin, sysvars>>

NextNames == ApplyNames

SpecNames == NamesInit /\ [][NextNames]_vars

(***************************************************************************)
(* Harness for getEntityCount: a list of entities and a permutation of it  *)
(***************************************************************************)
EntityValues == {Entity("go", "OTHER"), Entity("go", "ORGANIZATION"), Entity("tla", "OTHER")}

EntityLists == UNION {[1..n -> EntityValues] : n \in 0..MaxEntities}

Reorderings(s) ==
    {[i \in 1..Len(s) |-> s[p[i]]] :
        p \in {q \in [1..Len(s) -> 1..Len(s)] : \A a, b \in 1..Len(s) : q[a] = q[b] => a = b}}

TallyInit ==
    /\ SysOff
    /\ fpc = "in"
    /\ \E s \in EntityLists : \E p \in Reorderings(s) : fin = [entities |-> s, permuted |-> p]
    /\ fout = <<>>

ApplyTally ==
    /\ fpc = "in"
    /\ fpc' = "out"
    /\ \E a \in getEntityCount(fin.entities), b \in getEntityCount(fin.permuted) :
          fout' = [count |-> a, countPermuted |-> b,
                   tracker |-> entityTracker(fin.entities, Len(fin.entities)),
                   trackerPermuted |-> entityTracker(fin.permuted, Len(fin.permuted))]
    /\ UNCHANGED <<fin, sysvars>>

NextTally == ApplyTally

SpecTally == TallyInit /\ [][NextTally]_vars

(***************************************************************************)
(* Harness for parseSentiment: a score of [-1, 1], or NaN                  *)
(***************************************************************************)
Scores == (0 - ScoreScale)..ScoreScale

SentimentInit ==
    /\ SysOff
    /\ fpc = "in"
    /\ fin \in Scores \cup {NaN}
    /\ fout = <<>>

ApplySentiment ==
    /\ fpc = "in"
    /\ fpc' = "out"
    /\ fout' = [branch |-> parseSentimentBranch(fin), label |-> parseSentiment(fin)]
    /\ UNCHANGED <<fin, sysvars>>

NextSentiment == ApplySentiment

SpecSentiment == SentimentInit /\ [][NextSentiment]_vars

(***************************************************************************)
(* Harness for addEntityToWrapper and addSentimentToWrapper: a list of     *)
(* analyzed posts and a list of wrapper records, of any lengths and order  *)
(***************************************************************************)
MergeIDs == {"1", "2", "3"}

\* a post as the two analyze functions leave it
AnalyzedPost(id) ==
    LET post == [ID |-> id, Body |-> "x", Analysis |-> ZeroAnalysis]
        tally == CHOOSE w \in getEntityCount(ApiEntities(post.Body)) : TRUE
    IN SentimentIteration(EntityIteration(post, tally))

\* a wrapper record that has no analysis yet
BlankWrapper(id) == [ID |-> id, Entity |-> <<>>, Sentiment |-> ZeroSentiment]

MergePostLists ==
    {[i \in 1..Len(ids) |-> AnalyzedPost(ids[i])] :
        ids \in UNION {[1..n -> MergeIDs] : n \in 0..MaxPosts}}

MergeWrapperLists ==
    {[i \in 1..Len(ids) |-> BlankWrapper(ids[i])] :
        ids \in UNION {[1..n -> MergeIDs] : n \in 0..MaxPosts}}

MergeInit ==
    /\ SysOff
    /\ fpc = "in"
    /\ fin \in [posts : MergePostLists, wrapperPosts : MergeWrapperLists]
    /\ fout = <<>>

ApplyMerge ==
    /\ fpc = "in"
    /\ fpc' = "out"
    /\ fout' = [entity |-> addEntityToWrapper(fin.posts, fin.wrapperPosts),
                sentiment |-> addSentimentToWrapper(fin.posts, fin.wrapperPosts)]
    /\ UNCHANGED <<fin, sysvars>>

NextMerge == ApplyMerge

SpecMerge == MergeInit /\ [][NextMerge]_vars

(***************************************************************************)
(* Claims                                                                  *)
(***************************************************************************)
Handled == 1..Len(responses)

\* C1: a request that is not a GET or has an empty filename is answered 400
\* and starts no task; every other request is answered 200 with the
\* acknowledgement for its filename, written when its one task is started,
\* and that task is for this stage and filename.
C1_HandlerContract ==
    /\ \A r \in Handled :
          LET q == responses[r]
          IN IF q.method # "GET" \/ q.filename = <<>>
             THEN q.response.status = 400 /\ tasks[r].pc = "idle"
             ELSE /\ q.response.status = 200
                  /\ q.response.text = "analyzing"
                  /\ q.response.name = q.filename
                  /\ tasks[r].pc # "idle"
                  /\ tasks[r].stage = q.stage
                  /\ tasks[r].filename = q.filename
    /\ \A t \in Requests \ Handled : tasks[t].pc = "idle"

C1_Witness ==
    \E a, b \in Handled :
        /\ responses[a].response.status = 400 /\ responses[a].method = "POST"
        /\ responses[b].response.status = 200 /\ tasks[b].pc = "done"

\* C2: every failed step of a task (storage read, JSON decode, API call,
\* JSON encode, storage write, publish) is logged and ends the task, and a
\* failure before onAnalyzed leaves no upload behind and no onAnalyzed call.
C2_FailureLoggedAndFinal ==
    \A t \in Requests :
        LET task == tasks[t]
        IN task.failed # {} =>
              /\ task.failed \subseteq task.logged
              /\ task.pc = "failed"
              /\ task.failed # {"publish"} => ~task.stored /\ task.notified = <<>>

\* C3: no API call is made for a post with an empty body, and no record of
\* the uploaded output has an ID that belongs only to empty-body posts of
\* the fetched post list.
OnlyEmptyBody(posts, id) ==
    /\ \E k \in 1..Len(posts) : posts[k].ID = id /\ posts[k].Body = ""
    /\ ~\E k \in 1..Len(posts) : posts[k].ID = id /\ posts[k].Body # ""

C3_EmptyBodiesExcluded ==
    \A t \in Requests :
        LET task == tasks[t]
        IN /\ \A k \in 1..Len(task.apiCalls) : task.apiCalls[k].Body # ""
           /\ task.stored =>
                 \A k \in 1..Len(task.wrappedPosts) :
                     ~OnlyEmptyBody(task.posts, task.wrappedPosts[k].ID)

\* C4: appendToFilename(filename, addendum) is the name with "_" + addendum
\* inserted immediately before its extension, for every name.
InsertBeforeExtension(filename, addendum) ==
    SubSeq(filename, 1, Len(filename) - Len(Ext(filename)))
        \o <<"_">> \o addendum \o Ext(filename)

C4_SuffixBeforeExtension ==
    fpc = "out" => fout.appended = InsertBeforeExtension(fin.filename, fin.addendum)

\* C5: a task calls saveAnalyzedPosts at most once; the name it uploads to is
\* the input name when that is marked analyzed and appendToFilename(input,
\* "analyzed") otherwise; the name given to onAnalyzed is that name, and a
\* task that is done has uploaded once and notified once.
ExpectedOutputName(filename) ==
    IF isAnalysisFilename(filename) THEN filename ELSE appendToFilename(filename, Analyzed)

C5_OutputName ==
    \A t \in Requests :
        LET task == tasks[t]
        IN /\ Len(task.saved) <= 1
           /\ \A k \in 1..Len(task.saved) : task.saved[k] = ExpectedOutputName(task.filename)
           /\ task.writes \subseteq {ExpectedOutputName(task.filename)}
           /\ task.stored => task.writes = {ExpectedOutputName(task.filename)}
           /\ task.notified # <<>> => task.notified = task.saved
           /\ task.pc = "done" => Len(task.saved) = 1 /\ task.notified = task.saved

C5_Witness ==
    \E a, b \in Requests :
        /\ tasks[a].pc = "done" /\ tasks[a].stored /\ tasks[a].filename = RawName
        /\ tasks[a].notified = <<AnalyzedName>>
        /\ tasks[b].pc = "done" /\ tasks[b].stored /\ tasks[b].filename = AnalyzedName
        /\ tasks[b].notified = <<AnalyzedName>>

\* C6: every published event is {"update-post-sentiment", name} with a
\* non-empty name, published by an entity task whose output was uploaded
\* under that name; a task publishes at most once, a successful entity task
\* exactly once, a failed or aborted task and a sentiment task never.
EventsOf(t) == {k \in 1..Len(events) : events[k].task = t}

C6_PublishedAfterUpload ==
    /\ \A k \in 1..Len(events) :
          LET e == events[k]
              task == tasks[e.task]
          IN /\ e.event.eventType = "update-post-sentiment"
             /\ e.event.payload # <<>>
             /\ task.stage = "entity"
             /\ task.stored
             /\ task.saved = <<e.event.payload>>
    /\ \A t \in Requests :
          LET task == tasks[t]
          IN /\ Cardinality(EventsOf(t)) <= 1
             /\ task.stage = "sentiment" => EventsOf(t) = {}
             /\ task.pc \in {"failed", "aborted"} => EventsOf(t) = {}
             /\ (task.stage = "entity" /\ task.pc = "done" /\ task.failed = {})
                    => Cardinality(EventsOf(t)) = 1

\* C7: getEntityCount has exactly one entry per distinct entity name, the
\* entry's count is the number of entities of that name, and a permutation of
\* the input gives the same name-to-count mapping (in the slice revision and
\* in the map revision).
NamesOf(entities) == {entities[i].Name : i \in 1..Len(entities)}
Occurrences(entities, name) == Cardinality({i \in 1..Len(entities) : entities[i].Name = name})
AsMapping(wrapper) == {<<wrapper[k].Keyword, wrapper[k].Count>> : k \in 1..Len(wrapper)}

C7_TallyExact ==
    fpc = "out" =>
        /\ Len(fout.count) = Cardinality(NamesOf(fin.entities))
        /\ \A name \in NamesOf(fin.entities) :
              /\ Cardinality({k \in 1..Len(fout.count) : fout.count[k].Keyword = name}) = 1
              /\ \A k \in 1..Len(fout.count) :
                    fout.count[k].Keyword = name =>
                        fout.count[k].Count = Occurrences(fin.entities, name)
        /\ AsMapping(fout.count) = AsMapping(fout.countPermuted)
        /\ DOMAIN fout.tracker = NamesOf(fin.entities)
        /\ \A name \in NamesOf(fin.entities) :
              fout.tracker[name] = Occurrences(fin.entities, name)
        /\ fout.tracker = fout.trackerPermuted

C7_Witness ==
    /\ fpc = "out"
    /\ fin.entities # fin.permuted
    /\ fout.count # fout.countPermuted
    /\ \E k \in 1..Len(fout.count) : fout.count[k].Count = 2
    /\ Len(fout.count) = 2

\* C8: every score of [-1, 1] gets one of the four labels and never
\* "unknown": above 0.1 positive, exactly 0.1 neutral, from 0.0 up to but not
\* including 0.1 mixed, below 0.0 negative.
C8_ThresholdTable ==
    (fpc = "out" /\ fin \in Scores) =>
        /\ fout.label \in {"positive", "neutral", "mixed", "negative"}
        /\ fin * 10 > ScoreScale => fout.label = "positive"
        /\ fin * 10 = ScoreScale => fout.label = "neutral"
        /\ (0 <= fin /\ fin * 10 < ScoreScale) => fout.label = "mixed"
        /\ fin < 0 => fout.label = "negative"

\* the score 0.1 has been labelled neutral
C8_Witness == fpc = "out" /\ fin * 10 = ScoreScale /\ fout.label = "neutral"

\* C9 as stated: the "< 0.1 and > 0.0" branch is never taken, and some score
\* satisfies both "== 0.0" and "< 0.0".
C9_UnreachableAndOverlap ==
    fpc = "out" =>
        /\ fout.branch # 4
        /\ \E score \in Scores : CondZero(score) /\ CondNegative(score)

\* C9 as amended: the "< 0.1 and > 0.0" branch is taken by exactly the scores
\* strictly between 0.0 and 0.1; no score satisfies both "== 0.0" and
\* "< 0.0"; the only branch no score of [-1, 1] takes is the final "unknown".
C9_BranchesConsistent ==
    (fpc = "out" /\ fin \in Scores) =>
        /\ fout.branch = 4 <=> (0 < fin /\ fin * 10 < ScoreScale)
        /\ fout.branch = 1 <=> fin = 0
        /\ fout.branch = 5 <=> fin < 0
        /\ ~(CondZero(fin) /\ CondNegative(fin))
        /\ fout.branch # 6

C9_Witness == fpc = "out" /\ fin * 20 = ScoreScale /\ fout.branch = 4

\* C10: when two tasks that ran concurrently have both succeeded, the bucket
\* is what running the two one after the other, in one of the two orders,
\* leaves.
Succeeded(t) == tasks[t].pc = "done" /\ tasks[t].failed = {}
Concurrent(a, b) == a \in tasks[b].during \/ b \in tasks[a].during
SerialResult(a, b) ==
    RunTask(RunTask(store0, tasks[a].stage, tasks[a].filename),
            tasks[b].stage, tasks[b].filename)

C10_Serializable ==
    \A a, b \in Requests :
        (/\ a # b
         /\ Succeeded(a) /\ Succeeded(b) /\ Concurrent(a, b)
         /\ \A c \in Requests \ {a, b} : tasks[c].pc = "idle")
            => storage \in {SerialResult(a, b), SerialResult(b, a)}

\* C11: within a task the language API is called once per post with a
\* non-empty body, in the order of the fetched list, each call after the one
\* before it has returned; when the analysis returns without error the calls
\* are exactly the non-empty-body posts and the returned list is those posts
\* in their order; when a call fails it is the last call and the returned
\* list is empty.
WithBody(posts) == SelectSeq(posts, LAMBDA post : post.Body # "")
CallOf(post) == [ID |-> post.ID, Body |-> post.Body]
AnalysisReturned(task) ==
    /\ task.pc \in {"save", "onAnalyzed", "done", "panic", "aborted", "failed"}
    /\ task.failed \cap {"read", "decode", "api"} = {}
    /\ task.posts # <<>>

PostsWithID(posts, id) == {k \in 1..Len(posts) : posts[k].ID = id}

C12_MergeByID ==
    fpc = "out" =>
        /\ ~fout.entity.panic
        /\ ~fout.sentiment.panic
        /\ Len(fout.entity.wrapperPosts) = Len(fin.wrapperPosts)
        /\ Len(fout.sentiment.wrapperPosts) = Len(fin.wrapperPosts)
        /\ \A j \in 1..Len(fin.wrapperPosts) :
              LET before == fin.wrapperPosts[j]
                  e == fout.entity.wrapperPosts[j]
                  s == fout.sentiment.wrapperPosts[j]
                  same == PostsWithID(fin.posts, before.ID)
              IN IF same = {}
                 THEN e = before /\ s = before
                 ELSE /\ e.ID = before.ID /\ e.Sentiment = before.Sentiment
                      /\ \E k \in same : e.Entity = fin.posts[k].Analysis.Entity
                      /\ s.ID = before.ID /\ s.Entity = before.Entity
                      /\ \E k \in same : s.Sentiment = fin.posts[k].Analysis.Sentiment

\* C13: when an entity task on a raw file F has succeeded and a sentiment
\* request for the payload of its event arrives after it, with no other
\* request, the post list the sentiment task fetches is the raw file F, the
\* wrapper list it fetches is the entity task's output, and when it has
\* succeeded the object under the payload's name has one record per
\* non-empty-body post of F with the post's ID, its entity tally and its
\* sentiment.
Chained(a, b) ==
    /\ a \in Handled /\ b \in Handled /\ a < b
    /\ tasks[a].stage = "entity"
    /\ Lookup(store0, tasks[a].filename).kind = "posts"
    /\ Succeeded(a)
    /\ a \notin tasks[b].during
    /\ tasks[b].stage = "sentiment"
    /\ \E k \in EventsOf(a) : tasks[b].filename = events[k].event.payload
    /\ \A c \in Requests \ {a, b} : tasks[c].pc = "idle"

ChainedRecord(post) ==
    [ID |-> post.ID,
     Entity |-> CHOOSE w \in getEntityCount(ApiEntities(post.Body)) : TRUE,
     Sentiment |-> [Score |-> ApiSentimentScore(post.Body),
                    ParsedSentiment |-> parseSentiment(ApiSentimentScore(post.Body))]]

C13_ChainedPipeline ==
    \A a, b \in Requests :
        Chained(a, b) =>
            LET raw == store0[tasks[a].filename].posts
                expected == [k \in 1..Len(WithBody(raw)) |-> ChainedRecord(WithBody(raw)[k])]
                entityOutput == [k \in 1..Len(expected) |->
                                    [expected[k] EXCEPT !.Sentiment = ZeroSentiment]]
            IN /\ tasks[b].posts # <<>> =>
                     /\ tasks[b].posts = raw
                     /\ tasks[b].reads = {tasks[b].filename, tasks[a].filename}
               /\ tasks[b].pc \notin {"idle", "fetchAnalyzed", "failed"} =>
                     tasks[b].wrappedPosts \in {entityOutput, expected}
               /\ Succeeded(b) =>
                     Lookup(storage, tasks[b].filename) = WrappedFile(expected)

\* C14: for a filename isAnalysisFilename rejects, the output name
\* appendToFilename(filename, "analyzed") is accepted and removing its first
\* "_analyzed" gives the filename back; for a filename isAnalysisFilename
\* accepts, removing the first "_analyzed" gives a different name.
C14_FilenameRoundTrip ==
    fpc = "out" =>
        IF fout.marked
        THEN fout.original # fin.filename
        ELSE fout.outputMarked /\ fout.outputOriginal = fin.filename

\* C15: a task that calls saveAnalyzedPosts, or onAnalyzed, has fetched a
\* post list with at least one non-empty body and has at least one record
\* to upload; a task whose fetched posts all have an empty body (or that
\* fetched no post) has aborted without an upload.
C15_NeverUploadsEmpty ==
    \A t \in Requests :
        LET task == tasks[t]
        IN /\ (task.pc = "save" \/ task.saved # <<>> \/ task.notified # <<>>) =>
                 /\ WithBody(task.posts) # <<>>
                 /\ task.wrappedPosts # <<>>
           /\ (AnalysisReturned(task) /\ WithBody(task.posts) = <<>>) =>
                 task.pc = "aborted" /\ task.saved = <<>> /\ task.notified = <<>>

====
